---- MODULE Spec2Model ----
(***************************************************************************)
(* Volumetric ray-density estimation of raycloudtools' rayrender:          *)
(*   DensityGrid::calculateDensities  (src/raylib/rayrenderer.cpp 18-69)   *)
(*   DensityGrid::addNeighbourPriors  (src/raylib/rayrenderer.cpp 72-166)  *)
(*   renderCloud, density styles      (src/raylib/rayrenderer.cpp 168-406) *)
(*                                                                         *)
(* Numbers.  float/double values are modelled by exact extended rationals  *)
(* <<n, d>>: d > 0 is the rational n/d in lowest terms, <<1,0>> and        *)
(* <<-1,0>> are +inf and -inf, <<0,0>> is NaN.  The arithmetic follows     *)
(* IEEE-754 on these classes (x/0, 0/0, inf-inf, comparisons with NaN);    *)
(* rounding to the nearest float is not modelled.                          *)
(* World coordinates are measured in voxel widths (pix_width = 1).         *)
(***************************************************************************)
EXTENDS Integers, Sequences, FiniteSets, TLC

\* ------------------------------------------------------------------------
\* Extended rational arithmetic
\* ------------------------------------------------------------------------
Abs(i) == IF i < 0 THEN -i ELSE i

Sgn(i) == IF i > 0 THEN 1 ELSE IF i < 0 THEN -1 ELSE 0

RECURSIVE GCD(_, _)
GCD(a, b) == IF b = 0 THEN a ELSE GCD(b, a % b)

\* n/d brought to lowest terms with a non-negative denominator
Q(n, d) ==
  IF d = 0 THEN <<Sgn(n), 0>>
  ELSE LET g == GCD(Abs(n), Abs(d))
           s == Sgn(d)
       IN <<(s * n) \div g, (s * d) \div g>>

I(i) == <<i, 1>>

NaN == <<0, 0>>

PosInf == <<1, 0>>

IsNaN(a) == a = NaN

FAdd(a, b) ==
  IF a[2] = 0 /\ b[2] = 0 THEN (IF a = b THEN a ELSE NaN)
  ELSE Q(a[1] * b[2] + b[1] * a[2], a[2] * b[2])

FNeg(a) == <<-a[1], a[2]>>

FSub(a, b) == FAdd(a, FNeg(b))

FMul(a, b) == Q(a[1] * b[1], a[2] * b[2])

FDiv(a, b) ==
  IF b[1] < 0 THEN Q(-(a[1] * b[2]), a[2] * (-b[1]))
  ELSE Q(a[1] * b[2], a[2] * b[1])

\* IEEE comparisons: every comparison with NaN is false
FLt(a, b) ==
  /\ ~IsNaN(a)
  /\ ~IsNaN(b)
  /\ IF a[2] = 0 \/ b[2] = 0
     THEN (IF a[2] = 0 THEN a[1] ELSE 0) < (IF b[2] = 0 THEN b[1] ELSE 0)
     ELSE a[1] * b[2] < b[1] * a[2]

FLe(a, b) == ~IsNaN(a) /\ ~IsNaN(b) /\ ~FLt(b, a)

FGt(a, b) == FLt(b, a)

FGe(a, b) == FLe(b, a)

FMax(a, b) == IF FLt(a, b) THEN b ELSE a

\* floor and ceil of a finite rational, as integers
Floor(a) == a[1] \div a[2]

Ceil(a) == -((-a[1]) \div a[2])

IsInt(a) == a[2] = 1

\* ------------------------------------------------------------------------
\* DensityGrid::Voxel, the per-voxel accumulator
\* ------------------------------------------------------------------------
Zero == I(0)

EmptyVoxel ==
  [hitCount |-> Zero, hitDepthSum |-> Zero, missCount |-> Zero, missDepthSum |-> Zero]

addHitRay(v, length) ==
  [v EXCEPT !.hitCount = FAdd(v.hitCount, I(1)), !.hitDepthSum = FAdd(v.hitDepthSum, length)]

addMissRay(v, length) ==
  [v EXCEPT !.missCount = FAdd(v.missCount, I(1)), !.missDepthSum = FAdd(v.missDepthSum, length)]

numHits(v) == v.hitCount

numRays(v) == FAdd(v.hitCount, v.missCount)

density(v) ==
  LET denom == FAdd(v.hitDepthSum, v.missDepthSum)
  IN IF FGt(denom, Zero) THEN FDiv(v.hitCount, denom) ELSE Zero

\* operator +=
VoxelAdd(a, b) ==
  [hitCount     |-> FAdd(a.hitCount, b.hitCount),
   hitDepthSum  |-> FAdd(a.hitDepthSum, b.hitDepthSum),
   missCount    |-> FAdd(a.missCount, b.missCount),
   missDepthSum |-> FAdd(a.missDepthSum, b.missDepthSum)]

\* operator *
VoxelScale(a, scale) ==
  [hitCount     |-> FMul(a.hitCount, scale),
   hitDepthSum  |-> FMul(a.hitDepthSum, scale),
   missCount    |-> FMul(a.missCount, scale),
   missDepthSum |-> FMul(a.missDepthSum, scale)]

\* ------------------------------------------------------------------------
\* The grid renderCloud builds for a density render
\* ------------------------------------------------------------------------
\* Extent of the scene bounds (max_bound_ - min_bound_), in half voxel widths
ExtentHalfX == 5

ExtentHalfY == 5

ExtentHalfZ == 3

extent == <<Q(ExtentHalfX, 2), Q(ExtentHalfY, 2), Q(ExtentHalfZ, 2)>>

DENSITY_MIN_RAYS == 10

\* dims = (extent/pix_width).cast<int>() + (1,1,1), and + (1,1,1) again for the
\* convolution margin
voxel_dims_ == [k \in 1..3 |-> Floor(extent[k]) + 1 + 1]

\* grid_bounds: min_bound_ of the scene lowered by pix_width is the origin of
\* the model's frame; max_bound_ is the scene's
grid_min == [k \in 1..3 |-> Zero]

grid_max == [k \in 1..3 |-> FAdd(extent[k], I(1))]

NumVoxels == voxel_dims_[1] * voxel_dims_[2] * voxel_dims_[3]

Slots == 0 .. (NumVoxels - 1)

getIndex(inds) ==
  inds[1] + inds[2] * voxel_dims_[1] + inds[3] * voxel_dims_[1] * voxel_dims_[2]

InGrid(inds) == \A k \in 1..3 : inds[k] >= 0 /\ inds[k] < voxel_dims_[k]

Cells == {c \in (0..(voxel_dims_[1]-1)) \X (0..(voxel_dims_[2]-1)) \X (0..(voxel_dims_[3]-1)) : TRUE}

\* the voxels addNeighbourPriors visits: 1 <= index < dims-1 on every axis
Interior == {c \in Cells : \A k \in 1..3 : c[k] >= 1 /\ c[k] < voxel_dims_[k] - 1}

\* ------------------------------------------------------------------------
\* State
\* ------------------------------------------------------------------------
VARIABLES
  pc,          \* position in renderCloud: "calc", "smooth", "project", "write", "done"
  voxels_,     \* DensityGrid::voxels_, indexed by getIndex
  read_ok,     \* what readPly reported for the ray stream
  num_read,    \* rays handed to the calculate callback so far
  last_ray,    \* the ray of the latest callback iteration (history)
  trace,       \* its voxel accesses, in order (history)
  before_ray,  \* voxels_ before that ray (history)
  pos,         \* loop position <<x,y,z>> of addNeighbourPriors, or LoopEnd
  pre,         \* voxels_ as addNeighbourPriors found it (history)
  last_pos,    \* the voxel of the latest loop iteration (history)
  reads,       \* the accumulator values that iteration used, by offset (history)
  shells,      \* how many shells that iteration merged (history)
  num_hit_points,
  num_hit_points_unsatisfied,
  pixels,      \* the accumulated colour buffer of renderCloud
  image,       \* TRUE once an image file has been written
  result,      \* renderCloud's return value, "none" until it returns
  \* the do-while loop of calculateDensities, one iteration at a time
  loop_pc,     \* "idle", "loop", "break" (index left the grid), "exit" (loop test failed)
  loop_c,      \* the per-ray values source, dir, length, maxDist, alpha
  loop_p,      \* p
  loop_inds,   \* inds
  loop_depth,  \* depth
  loop_n,      \* iterations of the do-while loop executed so far
  \* a visiting order of the interior voxels other than that of lines 83-87
  scan,        \* the loop nest: axes from outermost to innermost, and which ascend
  stale,       \* <<voxel, offset>> reads of slots already overwritten in the pass (history)
  \* ray::Progress shared by the threads of Threads
  target_,
  progress_,
  reset_mutex_,  \* the thread holding reset_mutex_, or NoThread
  thread_pc,     \* per thread: "idle", or its position inside reset or progressRatio
  local,         \* per thread: the arguments and loaded values of its call in progress
  ratio,         \* per thread: what its latest progressRatio() returned
  stored,        \* the value of the latest plain store to progress_ (history)
  added,         \* the sum of the steps of the increments since that store (history)
  calls,         \* calls made so far
  \* start-up: main, renderCloud and the DensityGrid constructor
  cfg_pc,        \* "main", "renderCloud", "pixels", "grid", "rays", "usage", "threw"
  cfg_pix_width, \* pix_width, in half units
  cfg_extent,    \* bounds.max_bound_ - bounds.min_bound_, in half units per axis
  cfg_dims,      \* dims handed to the DensityGrid constructor, or None
  cfg_rays,      \* rays processed by calculateDensities
  \* Progress::read between the trackers of Trackers
  read_mutex,    \* per tracker: the thread holding its reset_mutex_, or NoThread
  read_pc,       \* per thread: "idle", or its position inside read or reset
  read_args,     \* per thread: <<this, other>> of its call in progress, or None
  read_value,    \* per tracker: its phase_, target_ and progress_
  read_calls     \* calls made so far

renderVars ==
  <<pc, voxels_, read_ok, num_read, last_ray, trace, before_ray, pos, pre, last_pos,
    reads, shells, num_hit_points, num_hit_points_unsatisfied, pixels, image, result>>

loopVars == <<loop_pc, loop_c, loop_p, loop_inds, loop_depth, loop_n>>

scanVars == <<scan, stale>>

progressVars ==
  <<target_, progress_, reset_mutex_, thread_pc, local, ratio, stored, added, calls>>

cfgVars == <<cfg_pc, cfg_pix_width, cfg_extent, cfg_dims, cfg_rays>>

readVars == <<read_mutex, read_pc, read_args, read_value, read_calls>>

vars == <<renderVars, loopVars, scanVars, progressVars, cfgVars, readVars>>

None == <<>>

LoopEnd == <<>>

\* the threads that share one Progress
NumThreads == 2

Threads == 1..NumThreads

NoThread == 0

\* the values the variables of one part keep while another part runs
LoopIdle ==
  /\ loop_pc = "idle"
  /\ loop_c = None
  /\ loop_p = None
  /\ loop_inds = None
  /\ loop_depth = None
  /\ loop_n = 0

ScanIdle == scan = None /\ stale = {}

ProgressIdle ==
  /\ target_ = 0
  /\ progress_ = 0
  /\ reset_mutex_ = NoThread
  /\ thread_pc = [t \in Threads |-> "idle"]
  /\ local = [t \in Threads |-> None]
  /\ ratio = [t \in Threads |-> None]
  /\ stored = 0
  /\ added = 0
  /\ calls = 0

CfgIdle ==
  /\ cfg_pc = "idle"
  /\ cfg_pix_width = I(1)
  /\ cfg_extent = extent
  /\ cfg_dims = None
  /\ cfg_rays = 0

\* the Progress objects a thread can name as this or as other in a call of read
Trackers == {"a", "b"}

ReadIdle ==
  /\ read_mutex = [x \in Trackers |-> NoThread]
  /\ read_pc = [t \in Threads |-> "idle"]
  /\ read_args = [t \in Threads |-> None]
  /\ read_value = [x \in Trackers |-> [phase_ |-> "", target_ |-> 0, progress_ |-> 0]]
  /\ read_calls = 0

\* ------------------------------------------------------------------------
\* Cuboid::clipRay: the part of the segment inside [grid_min, grid_max]
\* ------------------------------------------------------------------------
VSub(a, b) == [k \in 1..3 |-> FSub(a[k], b[k])]

FMin(a, b) == IF FLt(b, a) THEN b ELSE a

\* the parameter interval of start + t*dir inside the slab of axis k
SlabNear(start, dir, k) ==
  IF dir[k] = Zero THEN Zero
  ELSE IF FGt(dir[k], Zero) THEN FDiv(FSub(grid_min[k], start[k]), dir[k])
  ELSE FDiv(FSub(grid_max[k], start[k]), dir[k])

SlabFar(start, dir, k) ==
  IF dir[k] = Zero THEN I(1)
  ELSE IF FGt(dir[k], Zero) THEN FDiv(FSub(grid_max[k], start[k]), dir[k])
  ELSE FDiv(FSub(grid_min[k], start[k]), dir[k])

Intersects(start, end) ==
  LET dir  == VSub(end, start)
      near == FMax(Zero, FMax(SlabNear(start, dir, 1),
                              FMax(SlabNear(start, dir, 2), SlabNear(start, dir, 3))))
      far  == FMin(I(1), FMin(SlabFar(start, dir, 1),
                              FMin(SlabFar(start, dir, 2), SlabFar(start, dir, 3))))
  IN /\ \A k \in 1..3 :
          dir[k] = Zero => FLe(grid_min[k], start[k]) /\ FLe(start[k], grid_max[k])
     /\ FLe(near, far)

\* a segment that misses the cuboid is left as it is
clipRay(start, end) ==
  LET dir  == VSub(end, start)
      near == FMax(Zero, FMax(SlabNear(start, dir, 1),
                              FMax(SlabNear(start, dir, 2), SlabNear(start, dir, 3))))
      far  == FMin(I(1), FMin(SlabFar(start, dir, 1),
                              FMin(SlabFar(start, dir, 2), SlabFar(start, dir, 3))))
  IN IF Intersects(start, end)
       THEN [start |-> [k \in 1..3 |-> FAdd(start[k], FMul(near, dir[k]))],
             end   |-> [k \in 1..3 |-> FAdd(start[k], FMul(far, dir[k]))]]
     ELSE [start |-> start, end |-> end]

\* ------------------------------------------------------------------------
\* DensityGrid::calculateDensities: the walk of one ray
\* ------------------------------------------------------------------------
\* The doubles of the walk are big*1e10 + std + eps*1e-9 with rational
\* coefficients: 1e10 exceeds, and 1e-9 is below, every other quantity of a
\* walk, so sums and comparisons are those of the three coefficients in order.
H(r) == [big |-> Zero, std |-> r, eps |-> Zero]

\* the 1e-9 added to depth at every step
EPS == [big |-> Zero, std |-> Zero, eps |-> I(1)]

\* the initial minL, 1e10
BIG == [big |-> I(1), std |-> Zero, eps |-> Zero]

HAdd(a, b) ==
  [big |-> FAdd(a.big, b.big), std |-> FAdd(a.std, b.std), eps |-> FAdd(a.eps, b.eps)]

HSub(a, b) ==
  [big |-> FSub(a.big, b.big), std |-> FSub(a.std, b.std), eps |-> FSub(a.eps, b.eps)]

HScale(a, q) == [big |-> FMul(a.big, q), std |-> FMul(a.std, q), eps |-> FMul(a.eps, q)]

HLt(a, b) ==
  \/ FLt(a.big, b.big)
  \/ a.big = b.big /\ FLt(a.std, b.std)
  \/ a.big = b.big /\ a.std = b.std /\ FLt(a.eps, b.eps)

HGt(a, b) == HLt(b, a)

HLe(a, b) == a = b \/ HLt(a, b)

\* ceil and floor of a coordinate (never of the order of 1e10)
HCeil(a) ==
  IF IsInt(a.std) THEN (IF FGt(a.eps, Zero) THEN a.std[1] + 1 ELSE a.std[1])
  ELSE Ceil(a.std)

HFloor(a) ==
  IF IsInt(a.std) THEN (IF FLt(a.eps, Zero) THEN a.std[1] - 1 ELSE a.std[1])
  ELSE Floor(a.std)

\* static_cast<float>: a float does not resolve 1e-9 beside the lengths of a
\* walk; a length of the order of 1e10 is kept as the extended value +-inf
ToFloat(a) ==
  IF FGt(a.big, Zero) THEN PosInf
  ELSE IF FLt(a.big, Zero) THEN FNeg(PosInf)
  ELSE a.std

\* cast<int>: truncation towards zero
CastInt(a) == IF FLt(a, Zero) THEN Ceil(a) ELSE Floor(a)

ISqrt(n) == CHOOSE r \in 0..n : r * r = n

\* norm() of a vector whose length is rational
Norm(v) ==
  LET sq == FAdd(FMul(v[1], v[1]), FAdd(FMul(v[2], v[2]), FMul(v[3], v[3])))
  IN Q(ISqrt(sq[1]), ISqrt(sq[2]))

FAbs(a) == <<Abs(a[1]), a[2]>>

\* lines 43-48 for axis k: the distance along the ray to the next cell
\* boundary; a zero dir[k] makes l infinite or NaN, never below minL
StepLength(c, p, k) ==
  HScale(IF FGt(c.dir[k], Zero) THEN HSub(H(I(HCeil(p[k]))), p[k])
         ELSE HSub(p[k], H(I(HFloor(p[k])))),
         FDiv(c.length, FAbs(c.dir[k])))

Closer(c, p, k, best) ==
  IF c.dir[k] # Zero /\ HLt(StepLength(c, p, k), best.minL)
    THEN [minL |-> StepLength(c, p, k), axis |-> k]
  ELSE best

NearestBoundary(c, p) ==
  Closer(c, p, 3, Closer(c, p, 2, Closer(c, p, 1, [minL |-> BIG, axis |-> 1])))

\* line 54: p = source + depth * dir / length
PointAt(c, depth) ==
  [k \in 1..3 |-> HAdd(H(c.source[k]), HScale(depth, FDiv(c.dir[k], c.length)))]

\* line 51: inds[axis] += dir[axis] > 0 ? 1 : -1
StepIndex(c, inds, axis) ==
  [k \in 1..3 |->
     IF k = axis THEN inds[k] + (IF FGt(c.dir[axis], Zero) THEN 1 ELSE -1)
     ELSE inds[k]]

\* every step of a ray with alpha > 0 taken as its hit
IsHitWithoutDepth(c, depth) == c.alpha > 0

\* line 56: the step is the ray's hit
IsHit(c, depth) == c.alpha > 0 /\ HGt(depth, H(c.maxDist))

\* lines 58-63: the length handed to addHitRay or addMissRay
Contribution(c, minL, depth) ==
  IF IsHit(c, depth) THEN ToFloat(HSub(HAdd(minL, H(c.maxDist)), depth))
  ELSE ToFloat(minL)

\* the accumulator of slot j replaced by a fresh one holding only this ray
AccumulateOverwrite(vox, j, isHit, len) ==
  IF j \in Slots
    THEN [vox EXCEPT ![j] = IF isHit THEN addHitRay(EmptyVoxel, len)
                            ELSE addMissRay(EmptyVoxel, len)]
  ELSE vox

\* lines 59 and 63: voxels_[j] takes the ray; a j outside the array is an
\* access outside voxels_, which leaves the grid as it was
Accumulate(vox, j, isHit, len) ==
  IF j \in Slots
    THEN [vox EXCEPT ![j] = IF isHit THEN addHitRay(vox[j], len)
                            ELSE addMissRay(vox[j], len)]
  ELSE vox

\* a loop that goes on whatever the depth
LoopTestAlways(c, depth) == TRUE

\* line 65: while (depth <= maxDist)
LoopTest(c, depth) == HLe(depth, H(c.maxDist))

\* The do-while loop of lines 37-65, from the state (p, inds, depth) on.
\* c holds the per-ray values source, dir, length, maxDist and alpha.
\* Yields the grid after the walk and the voxel accesses made, in order.
RECURSIVE Walk(_, _, _, _, _, _)

\* lines 55-65: voxels_[getIndex(inds)] takes the contribution of the step,
\* and the loop goes on while depth <= maxDist
Attribute(c, inds, depth, vox, accesses, isHit, len) ==
  LET vox2 == Accumulate(vox, getIndex(inds), isHit, len)
      acc2 == Append(accesses, [cell |-> inds, hit |-> isHit, depth |-> len])
  IN IF LoopTest(c, depth)
       THEN Walk(c, PointAt(c, depth), inds, depth, vox2, acc2)
     ELSE [vox |-> vox2, accesses |-> acc2]

\* lines 52-53: the walk ends when the stepped index leaves the range of its
\* own axis; the other two axes are not tested
Stepped(c, inds, axis, depth, minL, vox, accesses) ==
  IF inds[axis] < 0 \/ inds[axis] >= voxel_dims_[axis]
    THEN [vox |-> vox, accesses |-> accesses]
  ELSE Attribute(c, inds, depth, vox, accesses, IsHit(c, depth), Contribution(c, minL, depth))

\* lines 50-51: depth and the index move on before anything is attributed
Advance(c, inds, depth, vox, accesses, nb) ==
  Stepped(c, StepIndex(c, inds, nb.axis), nb.axis, HAdd(depth, HAdd(nb.minL, EPS)),
          nb.minL, vox, accesses)

Walk(c, p, inds, depth, vox, accesses) ==
  Advance(c, inds, depth, vox, accesses, NearestBoundary(c, p))

\* one iteration of the callback's loop over the rays of a batch (lines 24-65)
\* lines 24-34: the values of a ray that stay fixed during its walk
RayValues(ray) ==
  LET clipped == clipRay(ray.start, ray.end)
      dir     == VSub(clipped.end, clipped.start)
      source  == VSub(clipped.start, grid_min)
      target  == VSub(clipped.end, grid_min)
  IN [source |-> source, dir |-> dir, length |-> Norm(dir),
      maxDist |-> Norm(VSub(target, source)), alpha |-> ray.alpha]

\* lines 31 and 35: p and inds before the loop
FirstPoint(c) == [k \in 1..3 |-> H(c.source[k])]

FirstIndex(c) == [k \in 1..3 |-> CastInt(c.source[k])]

WalkFrom(vox, c) == Walk(c, FirstPoint(c), FirstIndex(c), H(Zero), vox, <<>>)

WalkRay(vox, ray) == WalkFrom(vox, RayValues(ray))

\* ------------------------------------------------------------------------
\* DensityGrid::addNeighbourPriors
\* ------------------------------------------------------------------------
X == 1

Y == voxel_dims_[1]

Z == voxel_dims_[1] * voxel_dims_[2]

Off(ind, o) == ind + o[1] * X + o[2] * Y + o[3] * Z

Centre == <<0, 0, 0>>

\* the face shell with ind-X merged twice and ind+X never
FaceShellRepeated ==
  << <<-1,0,0>>, <<-1,0,0>>, <<0,-1,0>>, <<0,1,0>>, <<0,0,-1>>, <<0,0,1>> >>

\* the neighbours in the order the code merges them
FaceShell ==
  << <<-1,0,0>>, <<1,0,0>>, <<0,-1,0>>, <<0,1,0>>, <<0,0,-1>>, <<0,0,1>> >>

\* the edge shell with ind+Y-Z merged twice and ind+Y+Z never
EdgeShellRepeated ==
  << <<-1,-1,0>>, <<-1,1,0>>, <<1,-1,0>>, <<1,1,0>>,
     <<-1,0,-1>>, <<-1,0,1>>, <<1,0,-1>>, <<1,0,1>>,
     <<0,-1,-1>>, <<0,-1,1>>, <<0,1,-1>>, <<0,1,-1>> >>

EdgeShell ==
  << <<-1,-1,0>>, <<-1,1,0>>, <<1,-1,0>>, <<1,1,0>>,
     <<-1,0,-1>>, <<-1,0,1>>, <<1,0,-1>>, <<1,0,1>>,
     <<0,-1,-1>>, <<0,-1,1>>, <<0,1,-1>>, <<0,1,1>> >>

CornerShell ==
  << <<-1,-1,-1>>, <<-1,-1,1>>, <<-1,1,-1>>, <<1,-1,-1>>,
     <<-1,1,1>>, <<1,-1,1>>, <<1,1,-1>>, <<1,1,1>> >>

Range(seq) == {seq[i] : i \in 1..Len(seq)}

\* an output written where it was read, without the shift
OutSlotInPlace(ind) == ind

\* the slot an iteration writes: the output is shifted by -1,-1,-1
OutSlot(ind) == ind - X - Y - Z

\* the ratio taken the wrong way up: numRays over needed
ShareInverted(needed, n) == FDiv(n, needed)

\* the share of a sufficient shell that is borrowed: needed/neighbours.numRays()
Share(needed, n) == FDiv(needed, n)

RECURSIVE MergeShell(_, _, _)
MergeShell(rd, shell, i) ==
  IF i = 1 THEN rd[shell[1]]
  ELSE VoxelAdd(MergeShell(rd, shell, i - 1), rd[shell[i]])

\* One iteration of the loop body (lines 89-149) for the voxel at flat index ind.
\*   vox    : voxels_ after the iteration
\*   reads  : offset -> the accumulator value the iteration used
\*   shells : number of shells merged
\*   unsat  : all three shells were added in full
Iteration(vox0, ind) ==
  LET centre     == vox0[ind]
      needed     == FSub(I(DENSITY_MIN_RAYS), numRays(centre))
      out        == OutSlot(ind)
      corner_vox == vox0[out]
      vox1       == [vox0 EXCEPT ![out] = centre]
      rd         == [o \in (Range(FaceShell) \cup Range(EdgeShell) \cup Range(CornerShell)) |->
                       IF o = CornerShell[1] THEN corner_vox ELSE vox1[Off(ind, o)]]
      face       == MergeShell(rd, FaceShell, Len(FaceShell))
      edge       == MergeShell(rd, EdgeShell, Len(EdgeShell))
      corner     == MergeShell(rd, CornerShell, Len(CornerShell))
      voxelF     == VoxelAdd(vox1[out], face)
      neededE    == FSub(needed, numRays(face))
      voxelE     == VoxelAdd(voxelF, edge)
      neededC    == FSub(neededE, numRays(edge))
      used(sh)   == [o \in ({Centre} \cup sh) |-> IF o = Centre THEN centre ELSE rd[o]]
      ret(v, sh, n, u) ==
        [vox |-> [vox1 EXCEPT ![out] = v], reads |-> used(sh), shells |-> n, unsat |-> u]
  IN IF FLt(needed, Zero)
       THEN ret(vox1[out], {}, 0, FALSE)
     ELSE IF FGe(numRays(face), needed)
       THEN ret(VoxelAdd(vox1[out], VoxelScale(face, Share(needed, numRays(face)))),
                Range(FaceShell), 1, FALSE)
     ELSE IF FGe(numRays(edge), neededE)
       THEN ret(VoxelAdd(voxelF, VoxelScale(edge, Share(neededE, numRays(edge)))),
                Range(FaceShell) \cup Range(EdgeShell), 2, FALSE)
     ELSE IF FGe(numRays(corner), neededC)
       THEN ret(VoxelAdd(voxelE, VoxelScale(corner, Share(neededC, numRays(corner)))),
                Range(FaceShell) \cup Range(EdgeShell) \cup Range(CornerShell), 3, FALSE)
     ELSE ret(VoxelAdd(voxelE, corner),
              Range(FaceShell) \cup Range(EdgeShell) \cup Range(CornerShell), 3, TRUE)

\* the for loops of lines 83-87: x outermost, z innermost, all ascending
FirstPos == IF Interior = {} THEN LoopEnd ELSE <<1, 1, 1>>

NextPos(c) ==
  IF c[3] + 1 < voxel_dims_[3] - 1 THEN <<c[1], c[2], c[3] + 1>>
  ELSE IF c[2] + 1 < voxel_dims_[2] - 1 THEN <<c[1], c[2] + 1, 1>>
  ELSE IF c[1] + 1 < voxel_dims_[1] - 1 THEN <<c[1] + 1, 1, 1>>
  ELSE LoopEnd

\* every voxel taken to hold a hit sample
HasHitsAlways(vox, ind) == TRUE

\* lines 90 and 148: voxels_[ind].numHits() > 0
HasHits(vox, ind) == FGt(numHits(vox[ind]), Zero)

AddNeighbourPriorsStep ==
  /\ pc = "smooth"
  /\ pos # LoopEnd
  /\ LET ind == getIndex(pos)
         it  == Iteration(voxels_, ind)
     IN /\ voxels_' = it.vox
        /\ reads' = it.reads
        /\ shells' = it.shells
        /\ num_hit_points' = num_hit_points + (IF HasHits(voxels_, ind) THEN 1 ELSE 0)
        /\ num_hit_points_unsatisfied' =
             num_hit_points_unsatisfied +
               (IF it.unsat /\ HasHits(it.vox, ind) THEN 1 ELSE 0)
  /\ last_pos' = pos
  /\ pos' = NextPos(pos)
  /\ UNCHANGED <<pc, read_ok, num_read, last_ray, trace, before_ray, pre, pixels, image,
                 result>>
  /\ UNCHANGED <<loopVars, scanVars, progressVars, cfgVars, readVars>>

\* the pass started over when its loops are done
AddNeighbourPriorsAgain ==
  /\ pc = "smooth"
  /\ pos = LoopEnd
  /\ pos' = FirstPos
  /\ UNCHANGED <<pc, voxels_, read_ok, num_read, last_ray, trace, before_ray, pre,
                 last_pos, reads, shells, num_hit_points, num_hit_points_unsatisfied,
                 pixels, image, result>>
  /\ UNCHANGED <<loopVars, scanVars, progressVars, cfgVars, readVars>>

\* line 153: the percentage printed after the loops
percentage ==
  FDiv(FMul(I(100), I(num_hit_points_unsatisfied)), I(num_hit_points))

\* the loops are done: the percentage is printed and addNeighbourPriors returns
AddNeighbourPriorsEnd ==
  /\ pc = "smooth"
  /\ pos = LoopEnd
  /\ pc' = "project"
  /\ UNCHANGED <<voxels_, read_ok, num_read, last_ray, trace, before_ray, pos, pre,
                 last_pos, reads, shells, num_hit_points, num_hit_points_unsatisfied,
                 pixels, image, result>>
  /\ UNCHANGED <<loopVars, scanVars, progressVars, cfgVars, readVars>>

\* ------------------------------------------------------------------------
\* Smoothing on its own: the grids addNeighbourPriors may be handed
\* ------------------------------------------------------------------------
\* an accumulator holding h hit rays of depth 1/2 and m miss rays of depth 1
Sample(h, m) ==
  [hitCount |-> I(h), hitDepthSum |-> Q(h, 2), missCount |-> I(m), missDepthSum |-> I(m)]

Palette == {Sample(0, 0), Sample(1, 1), Sample(4, 6), Sample(5, 6)}

\* cells are filled by their position relative to voxel (1,1,1): itself, its
\* face, edge and corner neighbours, and the rest of the grid
Group(c) ==
  IF \E k \in 1..3 : c[k] > 2 THEN 4 ELSE Cardinality({k \in 1..3 : c[k] # 1})

CellOf(j) == CHOOSE c \in Cells : getIndex(c) = j

InitSmooth ==
  /\ pc = "smooth"
  /\ \E fill \in [0..4 -> Palette] : voxels_ = [j \in Slots |-> fill[Group(CellOf(j))]]
  /\ pre = voxels_
  /\ read_ok = TRUE
  /\ num_read = 0
  /\ last_ray = None
  /\ trace = <<>>
  /\ before_ray = voxels_
  /\ pos = FirstPos
  /\ last_pos = LoopEnd
  /\ reads = <<>>
  /\ shells = 0
  /\ num_hit_points = 0
  /\ num_hit_points_unsatisfied = 0
  /\ pixels = <<>>
  /\ image = FALSE
  /\ result = "none"
  /\ LoopIdle /\ ScanIdle /\ ProgressIdle /\ CfgIdle
  /\ ReadIdle

NextSmooth == AddNeighbourPriorsStep \/ AddNeighbourPriorsEnd

SpecSmooth == InitSmooth /\ [][NextSmooth]_vars

\* ------------------------------------------------------------------------
\* renderCloud with a density style: the whole render
\* ------------------------------------------------------------------------
\* the most rays the stream delivers in one render
MaxRays == 2

Point(hx, hy, hz) == <<Q(hx, 2), Q(hy, 2), Q(hz, 2)>>

\* The segments of the stream, as <<start, end>> in half voxel widths.  The
\* grid covers [0, 3.5] x [0, 3.5] x [0, 2.5].
Segments ==
  { << <<1, 1, 1>>, <<7, 1, 1>> >>,      \* along +x through four voxels
    << <<7, 1, 1>>, <<1, 1, 1>> >>,      \* along -x
    << <<1, 3, 3>>, <<5, 3, 3>> >>,      \* ends inside an interior voxel
    << <<3, 1, 3>>, <<3, 7, 3>> >>,      \* along +y
    << <<3, 3, 5>>, <<3, 3, 1>> >>,      \* along -z
    << <<1, 1, 1>>, <<4, 5, 1>> >>,      \* oblique, length 2.5
    << <<2, 3, 3>>, <<3, 3, 3>> >>,      \* starts on a cell boundary, within one voxel
    << <<3, 3, 3>>, <<3, 3, 3>> >>,      \* zero length, interior voxel
    << <<1, 1, 1>>, <<1, 1, 1>> >>,      \* zero length, first voxel
    << <<-3, 1, 1>>, <<5, 1, 1>> >>,     \* starts outside, clipped
    << <<3, 3, 3>>, <<11, 3, 3>> >>,     \* ends outside, clipped
    << <<3, -5, 3>>, <<5, -5, 3>> >>,    \* misses the grid, beside it
    << <<9, 3, 3>>, <<11, 3, 3>> >> }    \* misses the grid, beyond max_bound_

\* alpha 0 is a miss ray; any other alpha is a hit
Rays ==
  {[start |-> Point(sg[1][1], sg[1][2], sg[1][3]),
    end   |-> Point(sg[2][1], sg[2][2], sg[2][3]),
    alpha |-> a] : sg \in Segments, a \in {0, 255}}

\* renderCloud has built the grid and is about to call grid.calculateDensities
RenderStart ==
  /\ pc = "calc"
  /\ voxels_ = [j \in Slots |-> EmptyVoxel]
  /\ pre = voxels_
  /\ read_ok = TRUE
  /\ num_read = 0
  /\ last_ray = None
  /\ trace = <<>>
  /\ before_ray = voxels_
  /\ pos = FirstPos
  /\ last_pos = LoopEnd
  /\ reads = <<>>
  /\ shells = 0
  /\ num_hit_points = 0
  /\ num_hit_points_unsatisfied = 0
  /\ pixels = <<>>
  /\ image = FALSE
  /\ result = "none"

Init == RenderStart /\ LoopIdle /\ ScanIdle /\ ProgressIdle /\ CfgIdle /\ ReadIdle

\* the calculate callback handles the next ray of the stream
Calculate(ray) ==
  /\ pc = "calc"
  /\ read_ok
  /\ num_read < MaxRays
  /\ LET w == WalkRay(voxels_, ray)
     IN /\ voxels_' = w.vox
        /\ trace' = w.accesses
  /\ last_ray' = ray
  /\ before_ray' = voxels_
  /\ num_read' = num_read + 1
  /\ UNCHANGED <<pc, read_ok, pos, pre, last_pos, reads, shells, num_hit_points,
                 num_hit_points_unsatisfied, pixels, image, result>>
  /\ UNCHANGED <<loopVars, scanVars, progressVars, cfgVars, readVars>>

\* readPly returns, with success or failure; calculateDensities is void and
\* drops the value, and renderCloud goes on to addNeighbourPriors (line 210)
ReadPlyReturns(ok) ==
  /\ pc = "calc"
  /\ read_ok
  /\ read_ok' = ok
  /\ pc' = "smooth"
  /\ pre' = voxels_
  /\ pos' = FirstPos
  /\ UNCHANGED <<voxels_, num_read, last_ray, trace, before_ray, last_pos, reads, shells,
                 num_hit_points, num_hit_points_unsatisfied, pixels, image, result>>
  /\ UNCHANGED <<loopVars, scanVars, progressVars, cfgVars, readVars>>

\* lines 184-190: the image axes of a view axis, and the image size
x_axes == <<2, 1, 1>>

y_axes == <<3, 3, 2>>

ImageSize(k) == 1 + Floor(extent[k])

RECURSIVE ColumnDensity(_, _, _, _, _)
ColumnDensity(vox, axis, x, y, z) ==
  IF z < 0 THEN Zero
  ELSE LET ind == [k \in 1..3 |-> IF k = axis THEN z
                                 ELSE IF k = x_axes[axis] THEN x ELSE y]
       IN FAdd(ColumnDensity(vox, axis, x, y, z - 1), density(vox[getIndex(ind)]))

\* lines 213-228: the projection along the view axis
Project(axis) ==
  /\ pc = "project"
  /\ pixels' = [px \in (0..(ImageSize(x_axes[axis]) - 1)) \X (0..(ImageSize(y_axes[axis]) - 1)) |->
                  ColumnDensity(voxels_, axis, px[1], px[2], ImageSize(axis) - 1)]
  /\ pc' = "write"
  /\ UNCHANGED <<voxels_, read_ok, num_read, last_ray, trace, before_ray, pos, pre,
                 last_pos, reads, shells, num_hit_points, num_hit_points_unsatisfied,
                 image, result>>
  /\ UNCHANGED <<loopVars, scanVars, progressVars, cfgVars, readVars>>

\* lines 386-405: the image is written when its extension is a known format
WriteImage(known_ext) ==
  /\ pc = "write"
  /\ image' = known_ext
  /\ result' = IF known_ext THEN "true" ELSE "false"
  /\ pc' = "done"
  /\ UNCHANGED <<voxels_, read_ok, num_read, last_ray, trace, before_ray, pos, pre,
                 last_pos, reads, shells, num_hit_points, num_hit_points_unsatisfied,
                 pixels>>
  /\ UNCHANGED <<loopVars, scanVars, progressVars, cfgVars, readVars>>

Next ==
  \/ \E ray \in Rays : Calculate(ray)
  \/ \E ok \in BOOLEAN : ReadPlyReturns(ok)
  \/ AddNeighbourPriorsStep
  \/ AddNeighbourPriorsEnd
  \/ \E axis \in 1..3 : Project(axis)
  \/ \E known_ext \in BOOLEAN : WriteImage(known_ext)

Spec == Init /\ [][Next]_vars

\* ------------------------------------------------------------------------
\* Properties of addNeighbourPriors
\* ------------------------------------------------------------------------
Key(c) == (c[1] * voxel_dims_[2] + c[2]) * voxel_dims_[3] + c[3]

\* the interior voxels the pass has handled so far
Processed ==
  IF last_pos = LoopEnd THEN {} ELSE {v \in Interior : Key(v) <= Key(last_pos)}

\* the pass has visited every interior voxel
PassDone == last_pos # LoopEnd /\ pos = LoopEnd

\* the smoothed accumulator of interior voxel v
Smoothed(v) == voxels_[getIndex(<<v[1] - 1, v[2] - 1, v[3] - 1>>)]

Offsets == {o \in {-1, 0, 1} \X {-1, 0, 1} \X {-1, 0, 1} : o # <<0, 0, 0>>}

\* the neighbours with k non-zero offset components: 1 face, 2 edge, 3 corner
ShellOffsets(k) == {o \in Offsets : Cardinality({i \in 1..3 : o[i] # 0}) = k}

PreAt(v, o) == pre[getIndex(<<v[1] + o[1], v[2] + o[2], v[3] + o[3]>>)]

\* the i-th of the 27 offsets {-1,0,1}^3
OffsetAt(i) == <<((i - 1) % 3) - 1, (((i - 1) \div 3) % 3) - 1, ((i - 1) \div 9) - 1>>

\* the sum of the pre-smoothing accumulators of the neighbours of v whose
\* offset is in S, over the offsets numbered lo..hi
RECURSIVE SumPre(_, _, _, _)
SumPre(v, S, lo, hi) ==
  IF lo = hi
    THEN (IF OffsetAt(lo) \in S THEN PreAt(v, OffsetAt(lo)) ELSE EmptyVoxel)
  ELSE LET mid == (lo + hi) \div 2
       IN VoxelAdd(SumPre(v, S, lo, mid), SumPre(v, S, mid + 1, hi))

PreShell(v, k) == SumPre(v, ShellOffsets(k), 1, 27)

PreNeighbourhood(v) == SumPre(v, Offsets, 1, 27)

MinRays == I(DENSITY_MIN_RAYS)

\* C1: every accumulator value an iteration of the pass uses, the centre's and
\* each consulted neighbour's, is the value that voxel held before the pass.
C1_ReadsArePreSmoothing ==
  last_pos # LoopEnd =>
    \A o \in DOMAIN reads : reads[o] = PreAt(last_pos, o)

\* an iteration that consulted all 26 neighbours after earlier iterations of the
\* pass had already overwritten slots of the grid
C1_Witness ==
  /\ last_pos # LoopEnd
  /\ last_pos # FirstPos
  /\ shells = 3
  /\ \E v \in Processed \ {last_pos} : Smoothed(v) # pre[getIndex(<<v[1] - 1, v[2] - 1, v[3] - 1>>)]

\* C2: the smoothed numRays of a voxel is not greater than
\* max(minRays, its own pre-smoothing numRays + those of its 26 neighbours).
C2_NeverOvershoots ==
  PassDone => \A v \in Interior :
    ~FGt(numRays(Smoothed(v)),
         FMax(MinRays, FAdd(numRays(PreAt(v, Centre)), numRays(PreNeighbourhood(v)))))

\* a voxel was topped up with a fraction of a shell that held more than it needed
C2_Witness ==
  PassDone /\ \E v \in Interior :
    /\ FLt(numRays(PreAt(v, Centre)), MinRays)
    /\ FGt(FAdd(numRays(PreAt(v, Centre)), numRays(PreNeighbourhood(v))), MinRays)
    /\ numRays(Smoothed(v)) = MinRays

\* C3: a voxel whose own rays plus those of its 26 neighbours reach minRays has
\* at least minRays after smoothing.
C3_Sufficiency ==
  PassDone => \A v \in Interior :
    FGe(FAdd(numRays(PreAt(v, Centre)), numRays(PreNeighbourhood(v))), MinRays)
      => FGe(numRays(Smoothed(v)), MinRays)

\* the accumulator the share rule of the spec gives voxel v
Borrowed(v) ==
  LET own     == PreAt(v, Centre)
      need    == FSub(MinRays, numRays(own))
      face    == PreShell(v, 1)
      edge    == PreShell(v, 2)
      corner  == PreShell(v, 3)
      needE   == FSub(need, numRays(face))
      needC   == FSub(needE, numRays(edge))
  IN IF FGe(numRays(face), need)
       THEN VoxelAdd(own, VoxelScale(face, FDiv(need, numRays(face))))
     ELSE IF FGe(numRays(edge), needE)
       THEN VoxelAdd(VoxelAdd(own, face), VoxelScale(edge, FDiv(needE, numRays(edge))))
     ELSE VoxelAdd(VoxelAdd(VoxelAdd(own, face), edge),
                   VoxelScale(corner, FDiv(needC, numRays(corner))))

\* C4: an under-sampled voxel whose neighbourhood can cover its need receives
\* the nearer shells in full and the fraction needed/shell.numRays() of the
\* first shell that covers the rest, and ends with exactly minRays.
C4_FractionOfFirstSufficientShell ==
  PassDone => \A v \in Interior :
    (/\ FLt(numRays(PreAt(v, Centre)), MinRays)
     /\ FGe(FAdd(numRays(PreAt(v, Centre)), numRays(PreNeighbourhood(v))), MinRays))
      => /\ Smoothed(v) = Borrowed(v)
         /\ numRays(Smoothed(v)) = MinRays

\* the instance of the spec: an empty voxel whose six face neighbours hold two
\* rays each ends with 10 rays and the density of the face shell
C4_Witness ==
  /\ last_pos = <<1, 1, 1>>
  /\ numRays(PreAt(last_pos, Centre)) = Zero
  /\ \A o \in ShellOffsets(1) : numRays(PreAt(last_pos, o)) = I(2)
  /\ shells = 1
  /\ numRays(Smoothed(last_pos)) = MinRays
  /\ density(Smoothed(last_pos)) = density(PreShell(last_pos, 1))

\* ------------------------------------------------------------------------
\* Properties of the ray walk
\* ------------------------------------------------------------------------
\* a ray has just been walked
Walked == pc = "calc" /\ num_read > 0

RayInside(ray) ==
  \A k \in 1..3 :
    /\ FLe(grid_min[k], ray.start[k]) /\ FLe(ray.start[k], grid_max[k])
    /\ FLe(grid_min[k], ray.end[k]) /\ FLe(ray.end[k], grid_max[k])

CellOfPoint(pt) == <<Floor(pt[1]), Floor(pt[2]), Floor(pt[3])>>

\* the parameter interval of start + t*(end - start) inside voxel cell
EnterCell(ray, cell, k) ==
  LET d == FSub(ray.end[k], ray.start[k])
  IN IF d = Zero THEN Zero
     ELSE IF FGt(d, Zero) THEN FDiv(FSub(I(cell[k]), ray.start[k]), d)
     ELSE FDiv(FSub(I(cell[k] + 1), ray.start[k]), d)

LeaveCell(ray, cell, k) ==
  LET d == FSub(ray.end[k], ray.start[k])
  IN IF d = Zero THEN I(1)
     ELSE IF FGt(d, Zero) THEN FDiv(FSub(I(cell[k] + 1), ray.start[k]), d)
     ELSE FDiv(FSub(I(cell[k]), ray.start[k]), d)

Enter(ray, cell) ==
  FMax(Zero, FMax(EnterCell(ray, cell, 1), FMax(EnterCell(ray, cell, 2), EnterCell(ray, cell, 3))))

Leave(ray, cell) ==
  FMin(I(1), FMin(LeaveCell(ray, cell, 1), FMin(LeaveCell(ray, cell, 2), LeaveCell(ray, cell, 3))))

\* the segment runs through voxel cell over a stretch of positive length
PassesThrough(ray, cell) ==
  /\ \A k \in 1..3 : ray.start[k] = ray.end[k] => Floor(ray.start[k]) = cell[k]
  /\ FLt(Enter(ray, cell), Leave(ray, cell))

\* the length of the segment inside voxel cell
LengthInside(ray, cell) ==
  FMul(FSub(Leave(ray, cell), Enter(ray, cell)), Norm(VSub(ray.end, ray.start)))

MissedCells == {trace[i].cell : i \in {n \in 1..Len(trace) : ~trace[n].hit}}

HitAccesses == {n \in 1..Len(trace) : trace[n].hit}

\* the instance of the spec: (0.5,0.5,0.5) -> (3.5,0.5,0.5)
C5_Instance == [start |-> Point(1, 1, 1), end |-> Point(7, 1, 1), alpha |-> 255]

\* C5: a hit ray inside the grid adds one miss contribution to every voxel its
\* segment passes through before the voxel of its endpoint, the hit
\* contribution with the remaining partial depth to the voxel of its endpoint,
\* and nothing anywhere else; for the instance, miss depth 1.0 in (0,0,0),
\* (1,0,0), (2,0,0) and hit depth 0.5 in (3,0,0).
C5_HitRayContributions ==
  (/\ Walked
   /\ last_ray.alpha > 0
   /\ last_ray.start # last_ray.end
   /\ RayInside(last_ray))
    => LET last == CellOfPoint(last_ray.end)
       IN /\ MissedCells = {c \in Cells : PassesThrough(last_ray, c)} \ {last}
          /\ Cardinality(HitAccesses) = 1
          /\ \A n \in HitAccesses :
               /\ trace[n].cell = last
               /\ trace[n].depth = LengthInside(last_ray, last)
          /\ Len(trace) = Cardinality(MissedCells) + 1
          /\ last_ray = C5_Instance =>
               /\ MissedCells = {<<0, 0, 0>>, <<1, 0, 0>>, <<2, 0, 0>>}
               /\ \A n \in 1..Len(trace) :
                    trace[n].depth = IF trace[n].hit THEN Q(1, 2) ELSE I(1)

\* the voxels of the grid a segment touches: those it passes through and
\* those holding its start and its end
Touched(ray) ==
  {c \in Cells : PassesThrough(ray, c) \/ c = CellOfPoint(ray.start) \/ c = CellOfPoint(ray.end)}

\* C6: a miss ray adds one miss contribution to each voxel its segment passes
\* through, its start and end voxels included, no hit contribution, and
\* nothing to any other voxel.
C6_MissRayContributions ==
  (/\ Walked
   /\ last_ray.alpha = 0
   /\ last_ray.start # last_ray.end
   /\ RayInside(last_ray))
    => /\ HitAccesses = {}
       /\ MissedCells = Touched(last_ray)
       /\ Len(trace) = Cardinality(MissedCells)

\* C7: every voxel access of a walk uses an index inside dims on all three
\* axes, whatever the ray.
C7_AccessesInsideGrid ==
  \A n \in 1..Len(trace) : InGrid(trace[n].cell)

\* C8: once the ray stream has reported a read failure, nothing is smoothed,
\* projected or written, and renderCloud does not return true.
C8_StreamFailureAborts ==
  ~read_ok =>
    /\ last_pos = LoopEnd
    /\ pc \notin {"project", "write"}
    /\ pixels = <<>>
    /\ ~image
    /\ result # "true"

\* C9: a zero-length ray changes no voxel accumulator.
C9_DegenerateRayContributesNothing ==
  (Walked /\ last_ray.start = last_ray.end) => voxels_ = before_ray

\* C10: a ray whose segment does not meet the grid bounds changes no voxel
\* accumulator.
C10_OutsideRayContributesNothing ==
  (Walked /\ ~Intersects(last_ray.start, last_ray.end)) => voxels_ = before_ray
\* ------------------------------------------------------------------------
\* Properties of the grid renderCloud builds
\* ------------------------------------------------------------------------
\* bounds.min_bound_ and bounds.max_bound_ of the scene in grid coordinates:
\* only min_bound_ of the grid is moved, by one pix_width (line 204)
scene_min == [k \in 1..3 |-> FAdd(grid_min[k], I(1))]

scene_max == grid_max

\* voxel c, the half-open cube [c, c+1), holds a point of the scene bounds
HoldsScenePoint(c) ==
  \A k \in 1..3 : FGt(I(c[k] + 1), scene_min[k]) /\ FLe(I(c[k]), scene_max[k])

\* C11: every voxel that holds a point of the scene bounds is an interior
\* voxel, with index in [1, dims-2] on every axis.
C11_SceneVoxelsAreInterior ==
  \A c \in Cells :
    (getIndex(c) \in DOMAIN voxels_ /\ HoldsScenePoint(c)) => c \in Interior
\* ------------------------------------------------------------------------
\* Properties of the phases of a density render
\* ------------------------------------------------------------------------
Rank(at) ==
  CASE at = "calc" -> 0
    [] at = "smooth" -> 1
    [] at = "project" -> 2
    [] at = "write" -> 3
    [] at = "done" -> 4

\* C12: the phases follow one another in order; rays change the grid only
\* during calculateDensities, addNeighbourPriors then makes one pass that
\* visits each interior voxel once, and from the projection on the grid is
\* not modified.
C12_PhasesOrdered ==
  [][/\ Rank(pc') \in {Rank(pc), Rank(pc) + 1}
     /\ (pc = "calc" /\ voxels_' # voxels_) => (pc' = "calc" /\ num_read' = num_read + 1)
     /\ (pc = "calc" /\ pc' = "smooth") => pos' = FirstPos
     /\ (pc = "smooth" /\ pc' = "smooth") =>
          /\ pos # LoopEnd
          /\ last_pos' = pos
          /\ pos' = LoopEnd \/ Key(pos') > Key(pos)
     /\ (pc = "smooth" /\ pc' = "project") => pos = LoopEnd
     /\ pc \in {"project", "write", "done"} => voxels_' = voxels_]_vars

\* a render that walked rays, smoothed them and went on to write its image
C12_Witness ==
  /\ pc = "done"
  /\ num_read > 0
  /\ last_pos # LoopEnd
  /\ voxels_ # pre
  /\ pixels # <<>>
\* ------------------------------------------------------------------------
\* The do-while loop of calculateDensities, one iteration at a time
\* ------------------------------------------------------------------------
\* directions with a rational length, in half voxel widths: the zero
\* direction, along an axis, with one zero component, and with none
Directions ==
  {d \in (-4..4) \X (-4..4) \X (-4..4) :
     d[1] * d[1] + d[2] * d[2] + d[3] * d[3] \in {0, 1, 4, 9, 16, 25}}

\* start points: inside a voxel, on cell boundaries, in the last voxel of an
\* axis, and outside the grid
Starts == {<<1, 1, 1>>, <<3, 3, 3>>, <<2, 3, 3>>, <<4, 4, 2>>, <<7, 5, 3>>, <<-3, 1, 1>>}

LoopRays ==
  {[start |-> Point(st[1], st[2], st[3]),
    end   |-> Point(st[1] + d[1], st[2] + d[2], st[3] + d[3]),
    alpha |-> a] : st \in Starts, d \in Directions, a \in {0, 255}}

\* lines 24-36: the callback has set up a ray and enters the loop body
InitWalk ==
  /\ RenderStart
  /\ \E ray \in LoopRays :
       /\ loop_c = RayValues(ray)
       /\ loop_p = FirstPoint(RayValues(ray))
       /\ loop_inds = FirstIndex(RayValues(ray))
  /\ loop_depth = H(Zero)
  /\ loop_n = 0
  /\ loop_pc = "loop"
  /\ ScanIdle /\ ProgressIdle /\ CfgIdle
  /\ ReadIdle

\* lines 38-65: one iteration of the loop body and the loop test; each local
\* of the body is computed once and then used
LoopStep ==
  /\ loop_pc = "loop"
  /\ \E nb \in {NearestBoundary(loop_c, loop_p)} :
     \E depth2 \in {HAdd(loop_depth, HAdd(nb.minL, EPS))} :
     \E inds2 \in {StepIndex(loop_c, loop_inds, nb.axis)} :
     \E isHit \in {IsHit(loop_c, depth2)} :
     \E len \in {Contribution(loop_c, nb.minL, depth2)} :
        /\ loop_depth' = depth2
        /\ loop_n' = loop_n + 1
        /\ loop_inds' = inds2
        /\ IF inds2[nb.axis] < 0 \/ inds2[nb.axis] >= voxel_dims_[nb.axis]
             THEN /\ loop_pc' = "break"
                  /\ UNCHANGED <<loop_p, voxels_, trace>>
           ELSE /\ loop_p' = PointAt(loop_c, depth2)
                /\ voxels_' = Accumulate(voxels_, getIndex(inds2), isHit, len)
                /\ trace' = Append(trace, [cell |-> inds2, hit |-> isHit, depth |-> len])
                /\ loop_pc' = IF LoopTest(loop_c, depth2) THEN "loop" ELSE "exit"
  /\ UNCHANGED <<loop_c, pc, read_ok, num_read, last_ray, before_ray, pos, pre, last_pos,
                 reads, shells, num_hit_points, num_hit_points_unsatisfied, pixels,
                 image, result>>
  /\ UNCHANGED <<scanVars, progressVars, cfgVars, readVars>>

NextWalk == LoopStep

\* the thread running the callback keeps executing the loop
Iterate == loop_pc = "loop" /\ loop_n' = loop_n + 1

SpecWalk == InitWalk /\ [][NextWalk]_vars /\ WF_loop_n(Iterate)

\* the most iterations a walk can make: every iteration moves one index one
\* cell on, in the fixed direction of its axis
MaxIterations == voxel_dims_[1] + voxel_dims_[2] + voxel_dims_[3]

\* C13: the loop of every ray ends, by the stepped index leaving the grid or
\* by the depth passing the length of the ray; it never goes on once the
\* depth is past the length, and it makes a bounded number of iterations.
C13_WalkTerminates ==
  /\ (loop_pc = "loop") ~> (loop_pc \in {"break", "exit"})
  /\ [](/\ loop_pc = "loop" =>
             (loop_depth = H(Zero) \/ HLe(loop_depth, H(loop_c.maxDist)))
        /\ loop_pc = "exit" => HGt(loop_depth, H(loop_c.maxDist))
        /\ loop_pc = "break" =>
             \E k \in 1..3 : loop_inds[k] < 0 \/ loop_inds[k] >= voxel_dims_[k]
        /\ loop_n <= MaxIterations)

\* a walk along a direction with a zero component that ended after several
\* iterations by leaving the grid, and one that ended by its depth
C13_Witness ==
  /\ loop_pc = "break"
  /\ Len(trace) >= 2
  /\ \E k \in 1..3 : loop_c.dir[k] = Zero
  /\ \E k \in 1..3 : FLt(loop_c.dir[k], Zero)

\* the loop done step by step leaves the grid that Walk computes
WalkAgrees ==
  loop_pc \in {"break", "exit"} =>
    LET w == WalkFrom([j \in Slots |-> EmptyVoxel], loop_c)
    IN voxels_ = w.vox /\ trace = w.accesses

\* ------------------------------------------------------------------------
\* Order of the rays
\* ------------------------------------------------------------------------
\* C14: the grid does not depend on the order of the rays: from every grid
\* the accumulation reaches, walking the last ray and then any ray r gives
\* the accumulators that walking r first and the last ray second gives, so
\* any two orders of the same rays, being linked by exchanges of adjacent
\* rays, and any split of them into batches, end in the same grid.
C14_OrderIndependent ==
  Walked =>
    \A r \in Rays :
      WalkRay(voxels_, r).vox = WalkRay(WalkRay(before_ray, r).vox, last_ray).vox

\* two different rays have been accumulated into a common voxel
C14_Witness ==
  /\ Walked
  /\ num_read = 2
  /\ before_ray # WalkRay([j \in Slots |-> EmptyVoxel], last_ray).vox
  /\ \E j \in Slots : before_ray[j] # EmptyVoxel /\ voxels_[j] # before_ray[j]

\* ------------------------------------------------------------------------
\* Properties of the projection
\* ------------------------------------------------------------------------
\* the sum of density() over every voxel of the grid column of pixel px
WholeColumn(axis, px) ==
  ColumnDensity(voxels_, axis, px[1], px[2], voxel_dims_[axis] - 1)

\* C15: once the image is projected, every pixel holds the sum of density()
\* over all the voxels of its column along the view axis.
C15_PixelIsColumnSum ==
  pc \in {"write", "done"} =>
    \E axis \in 1..3 :
      /\ DOMAIN pixels = (0..(ImageSize(x_axes[axis]) - 1)) \X (0..(ImageSize(y_axes[axis]) - 1))
      /\ \A px \in DOMAIN pixels : pixels[px] = WholeColumn(axis, px)

\* ------------------------------------------------------------------------
\* The under-sampled ratio
\* ------------------------------------------------------------------------
\* the interior voxels handled so far that held a hit sample before the pass
HitVoxels == {v \in Processed : FGt(numHits(pre[getIndex(v)]), Zero)}

\* those of them whose smoothed accumulator is still below DENSITY_MIN_RAYS
UnderSampled == {v \in HitVoxels : FLt(numRays(Smoothed(v)), I(DENSITY_MIN_RAYS))}

\* C16: the two counters of the pass are the number of interior voxels with
\* a hit sample and the number of those still below DENSITY_MIN_RAYS after
\* smoothing, the second never exceeds the first, and the ratio reported is
\* their quotient (as a percentage) whenever a voxel holds a hit sample.
C16_UnderSampledRatio ==
  pc = "smooth" =>
    /\ num_hit_points = Cardinality(HitVoxels)
    /\ num_hit_points_unsatisfied = Cardinality(UnderSampled)
    /\ num_hit_points_unsatisfied <= num_hit_points
    /\ (PassDone /\ num_hit_points > 0) =>
         percentage = Q(100 * Cardinality(UnderSampled), Cardinality(HitVoxels))

\* a finished pass that counted a hit voxel still below DENSITY_MIN_RAYS and
\* passed over interior voxels without a hit sample
C16_Witness ==
  /\ pc = "smooth"
  /\ PassDone
  /\ 0 < num_hit_points_unsatisfied
  /\ HitVoxels # Interior
  /\ \E v \in Interior \ HitVoxels : FLt(numRays(Smoothed(v)), I(DENSITY_MIN_RAYS))

\* ------------------------------------------------------------------------
\* The configuration of the grid: rayrender's main and the set-up of
\* renderCloud, for any pixel width and any bounds
\* ------------------------------------------------------------------------
\* the pixel widths a caller may pass
PixWidths == {I(-2), I(-1), Q(-1, 2), Zero, Q(1, 2), I(1), I(2)}

\* bounds.max_bound_ - bounds.min_bound_: a scene, a single point, and the
\* inverted bounds of a cloud without bounded rays
Extents == {extent, <<Zero, Zero, Zero>>, <<FNeg(extent[1]), FNeg(extent[2]), FNeg(extent[3])>>}

\* the values a conversion of an infinite or NaN double to int may give
UndefinedInts == {-2, 0, 2}

\* static_cast<int> and Eigen's cast<int>: the outcomes of the conversion,
\* which is undefined for a value that no int holds
CastOutcomes(a) == IF a[2] = 0 THEN UndefinedInts ELSE {CastInt(a)}

\* the rays calculateDensities handles in one render
MaxCfgRays == 2

InitConfig ==
  /\ RenderStart /\ LoopIdle /\ ScanIdle /\ ProgressIdle /\ ReadIdle
  /\ cfg_pc \in {"main", "renderCloud"}
  /\ cfg_pix_width \in PixWidths
  /\ cfg_extent \in Extents
  /\ cfg_dims = None
  /\ cfg_rays = 0

\* rayrender.cpp lines 100-103: a non-positive pix_width ends in usage()
MainChecks ==
  /\ cfg_pc = "main"
  /\ cfg_pc' = IF FLe(cfg_pix_width, Zero) THEN "usage" ELSE "renderCloud"
  /\ UNCHANGED <<cfg_pix_width, cfg_extent, cfg_dims, cfg_rays>>
  /\ UNCHANGED <<renderVars, loopVars, scanVars, progressVars, readVars>>

\* lines 188-195: width and height of the image and the pixel buffer; a
\* negative size makes std::vector throw
AllocatePixels(axis) ==
  /\ cfg_pc = "renderCloud"
  /\ \E w \in CastOutcomes(FDiv(cfg_extent[x_axes[axis]], cfg_pix_width)),
        h \in CastOutcomes(FDiv(cfg_extent[y_axes[axis]], cfg_pix_width)) :
       cfg_pc' = IF (1 + w) * (1 + h) < 0 THEN "length_error" ELSE "density"
  /\ UNCHANGED <<cfg_pix_width, cfg_extent, cfg_dims, cfg_rays>>
  /\ UNCHANGED <<renderVars, loopVars, scanVars, progressVars, readVars>>

\* lines 199-204: dims
ComputeDims ==
  /\ cfg_pc = "density"
  /\ \E d1 \in CastOutcomes(FDiv(cfg_extent[1], cfg_pix_width)),
        d2 \in CastOutcomes(FDiv(cfg_extent[2], cfg_pix_width)),
        d3 \in CastOutcomes(FDiv(cfg_extent[3], cfg_pix_width)) :
       cfg_dims' = <<d1 + 1 + 1, d2 + 1 + 1, d3 + 1 + 1>>
  /\ cfg_pc' = "construct"
  /\ UNCHANGED <<cfg_pix_width, cfg_extent, cfg_rays>>
  /\ UNCHANGED <<renderVars, loopVars, scanVars, progressVars, readVars>>

\* a constructor that takes any width and any dims
ValidGridAlways(width, dims) == TRUE

\* the condition of the DensityGrid constructor
ValidGrid(width, dims) ==
  FGt(width, Zero) /\ \A k \in 1..3 : dims[k] > 0

\* line 205: DensityGrid grid(grid_bounds, pix_width, dims)
Construct ==
  /\ cfg_pc = "construct"
  /\ cfg_pc' = IF ValidGrid(cfg_pix_width, cfg_dims) THEN "calculate" ELSE "failed"
  /\ UNCHANGED <<cfg_pix_width, cfg_extent, cfg_dims, cfg_rays>>
  /\ UNCHANGED <<renderVars, loopVars, scanVars, progressVars, readVars>>

\* line 207: calculateDensities handles one more ray
ProcessRay ==
  /\ cfg_pc = "calculate"
  /\ cfg_rays < MaxCfgRays
  /\ cfg_rays' = cfg_rays + 1
  /\ UNCHANGED <<cfg_pc, cfg_pix_width, cfg_extent, cfg_dims>>
  /\ UNCHANGED <<renderVars, loopVars, scanVars, progressVars, readVars>>

NextConfig ==
  \/ MainChecks
  \/ \E axis \in 1..3 : AllocatePixels(axis)
  \/ ComputeDims
  \/ Construct
  \/ ProcessRay

SpecConfig == InitConfig /\ [][NextConfig]_vars

\* the grid is being, or has been, constructed with a non-positive width or
\* a non-positive dimension
BadGrid ==
  /\ cfg_dims # None
  /\ FLe(cfg_pix_width, Zero) \/ \E k \in 1..3 : cfg_dims[k] <= 0

SizeModulus == 8

\* the calls made on one Progress by all threads together
MaxCalls == 3

\* targets passed to the constructor and to reset; 0 is an unknown target
Targets == {0, 2}

\* arguments of increment(step) and of setProgress(value)
Steps == {2, 7}

Values == {1, 5}

\* an increment that writes back the value seen at the call plus the step
FetchAddOnSeen(current, seen, step) == (seen + step) % SizeModulus

\* ++progress_ and progress_ += step on std::atomic_size_t: one atomic
\* read-modify-write of the current value
FetchAdd(current, seen, step) == (current + step) % SizeModulus

\* Progress(target): target_(target), progress_(0u)
InitProgress ==
  /\ RenderStart /\ LoopIdle /\ ScanIdle /\ CfgIdle
  /\ ReadIdle
  /\ target_ \in Targets
  /\ progress_ = 0
  /\ reset_mutex_ = NoThread
  /\ thread_pc = [t \in Threads |-> "idle"]
  /\ local = [t \in Threads |-> None]
  /\ ratio = [t \in Threads |-> None]
  /\ stored = 0
  /\ added = 0
  /\ calls = 0

\* a thread calls increment()
IncrementCall(t) ==
  /\ thread_pc[t] = "idle"
  /\ calls < MaxCalls
  /\ thread_pc' = [thread_pc EXCEPT ![t] = "increment"]
  /\ local' = [local EXCEPT ![t] = [step |-> 1, seen |-> progress_]]
  /\ calls' = calls + 1
  /\ UNCHANGED <<target_, progress_, reset_mutex_, ratio, stored, added>>
  /\ UNCHANGED <<renderVars, loopVars, scanVars, cfgVars, readVars>>

\* a thread calls increment(step)
IncrementStepCall(t, step) ==
  /\ thread_pc[t] = "idle"
  /\ calls < MaxCalls
  /\ thread_pc' = [thread_pc EXCEPT ![t] = "increment"]
  /\ local' = [local EXCEPT ![t] = [step |-> step, seen |-> progress_]]
  /\ calls' = calls + 1
  /\ UNCHANGED <<target_, progress_, reset_mutex_, ratio, stored, added>>
  /\ UNCHANGED <<renderVars, loopVars, scanVars, cfgVars, readVars>>

\* ++progress_ / progress_ += step
IncrementApply(t) ==
  /\ thread_pc[t] = "increment"
  /\ progress_' = FetchAdd(progress_, local[t].seen, local[t].step)
  /\ added' = added + local[t].step
  /\ thread_pc' = [thread_pc EXCEPT ![t] = "idle"]
  /\ local' = [local EXCEPT ![t] = None]
  /\ UNCHANGED <<target_, reset_mutex_, ratio, stored, calls>>
  /\ UNCHANGED <<renderVars, loopVars, scanVars, cfgVars, readVars>>

\* setProgress(value): progress_ = value
SetProgress(t, value) ==
  /\ thread_pc[t] = "idle"
  /\ calls < MaxCalls
  /\ progress_' = value
  /\ stored' = value
  /\ added' = 0
  /\ calls' = calls + 1
  /\ UNCHANGED <<target_, reset_mutex_, thread_pc, local, ratio>>
  /\ UNCHANGED <<renderVars, loopVars, scanVars, cfgVars, readVars>>

\* reset(phase, target): the guard takes reset_mutex_; phase_ = phase
ResetLock(t, target) ==
  /\ thread_pc[t] = "idle"
  /\ calls < MaxCalls
  /\ reset_mutex_ = NoThread
  /\ reset_mutex_' = t
  /\ thread_pc' = [thread_pc EXCEPT ![t] = "reset_target"]
  /\ local' = [local EXCEPT ![t] = [target |-> target]]
  /\ calls' = calls + 1
  /\ UNCHANGED <<target_, progress_, ratio, stored, added>>
  /\ UNCHANGED <<renderVars, loopVars, scanVars, cfgVars, readVars>>

\* target_ = target
ResetTarget(t) ==
  /\ thread_pc[t] = "reset_target"
  /\ target_' = local[t].target
  /\ thread_pc' = [thread_pc EXCEPT ![t] = "reset_progress"]
  /\ UNCHANGED <<progress_, reset_mutex_, local, ratio, stored, added, calls>>
  /\ UNCHANGED <<renderVars, loopVars, scanVars, cfgVars, readVars>>

\* progress_ = 0u, and the guard releases reset_mutex_ on return
ResetProgress(t) ==
  /\ thread_pc[t] = "reset_progress"
  /\ progress_' = 0
  /\ stored' = 0
  /\ added' = 0
  /\ reset_mutex_' = NoThread
  /\ thread_pc' = [thread_pc EXCEPT ![t] = "idle"]
  /\ local' = [local EXCEPT ![t] = None]
  /\ UNCHANGED <<target_, ratio, calls>>
  /\ UNCHANGED <<renderVars, loopVars, scanVars, cfgVars, readVars>>

\* progressRatio(): const size_t target = target_
RatioLoadTarget(t) ==
  /\ thread_pc[t] = "idle"
  /\ calls < MaxCalls
  /\ thread_pc' = [thread_pc EXCEPT ![t] = "ratio_progress"]
  /\ local' = [local EXCEPT ![t] = [target |-> target_]]
  /\ calls' = calls + 1
  /\ UNCHANGED <<target_, progress_, reset_mutex_, ratio, stored, added>>
  /\ UNCHANGED <<renderVars, loopVars, scanVars, cfgVars, readVars>>

\* const size_t progress = progress_, and the value returned
RatioLoadProgress(t) ==
  /\ thread_pc[t] = "ratio_progress"
  /\ ratio' = [ratio EXCEPT ![t] =
                 [target |-> local[t].target,
                  value  |-> IF local[t].target > 0 THEN Q(progress_, local[t].target)
                             ELSE I(progress_)]]
  /\ thread_pc' = [thread_pc EXCEPT ![t] = "idle"]
  /\ local' = [local EXCEPT ![t] = None]
  /\ UNCHANGED <<target_, progress_, reset_mutex_, stored, added, calls>>
  /\ UNCHANGED <<renderVars, loopVars, scanVars, cfgVars, readVars>>

NextProgress ==
  \E t \in Threads :
    \/ IncrementCall(t)
    \/ \E step \in Steps : IncrementStepCall(t, step)
    \/ IncrementApply(t)
    \/ \E value \in Values : SetProgress(t, value)
    \/ \E target \in Targets : ResetLock(t, target)
    \/ ResetTarget(t)
    \/ ResetProgress(t)
    \/ RatioLoadTarget(t)
    \/ RatioLoadProgress(t)

SpecProgress == InitProgress /\ [][NextProgress]_vars

\* C18: no increment is lost: the progress value is the value last stored
\* (by the constructor, setProgress or reset) plus the sum of the steps of
\* all increments made since, by whichever threads and however interleaved.
C18_NoLostUpdate == progress_ = (stored + added) % SizeModulus

\* an increment of one thread landed while an increment of another thread
\* was under way
C18_Witness ==
  \E t \in Threads :
    /\ thread_pc[t] = "increment"
    /\ local[t].seen # progress_
    /\ added > 0

\* C19: with a known target the progress value is at most the target and
\* every ratio computed from a known target lies in [0, 1].
C19_ProgressWithinTarget ==
  /\ target_ # 0 => progress_ <= target_
  /\ \A t \in Threads :
       (ratio[t] # None /\ ratio[t].target # 0) =>
         (FLe(Zero, ratio[t].value) /\ FLe(ratio[t].value, I(1)))

\* ------------------------------------------------------------------------
\* The pass of addNeighbourPriors with its interior voxels visited in any
\* order: other loop nests, and threads that each take whole iterations
\* ------------------------------------------------------------------------
\* the grids of the pass: every voxel needs rays from its neighbours
SparsePalette == {Sample(0, 0), Sample(1, 1)}

InitReorder ==
  /\ pc = "smooth"
  /\ \E fill \in [0..4 -> SparsePalette] : voxels_ = [j \in Slots |-> fill[Group(CellOf(j))]]
  /\ pre = voxels_
  /\ read_ok = TRUE
  /\ num_read = 0
  /\ last_ray = None
  /\ trace = <<>>
  /\ before_ray = voxels_
  /\ pos = FirstPos
  /\ last_pos = LoopEnd
  /\ reads = <<>>
  /\ shells = 0
  /\ num_hit_points = 0
  /\ num_hit_points_unsatisfied = 0
  /\ pixels = <<>>
  /\ image = FALSE
  /\ result = "none"
  /\ scan = <<>>
  /\ stale = {}
  /\ LoopIdle /\ ProgressIdle /\ CfgIdle
  /\ ReadIdle

\* the slots the pass has written so far (line 94)
Written == {OutSlot(getIndex(scan[i])) : i \in 1..Len(scan)}

\* lines 89-149 for voxel v, whichever voxels were handled before it
ReorderStep(v) ==
  /\ pc = "smooth"
  /\ v \in Interior
  /\ \A i \in 1..Len(scan) : scan[i] # v
  /\ LET ind == getIndex(v)
         it  == Iteration(voxels_, ind)
     IN /\ voxels_' = it.vox
        /\ reads' = it.reads
        /\ shells' = it.shells
        /\ num_hit_points' = num_hit_points + (IF HasHits(voxels_, ind) THEN 1 ELSE 0)
        /\ num_hit_points_unsatisfied' =
             num_hit_points_unsatisfied +
               (IF it.unsat /\ HasHits(it.vox, ind) THEN 1 ELSE 0)
        /\ stale' = stale \cup {<<v, o>> : o \in {q \in DOMAIN it.reads : Off(ind, q) \in Written}}
  /\ scan' = Append(scan, v)
  /\ last_pos' = v
  /\ pos' = IF Len(scan) + 1 = Cardinality(Interior) THEN LoopEnd ELSE pos
  /\ UNCHANGED <<pc, read_ok, num_read, last_ray, trace, before_ray, pre, pixels, image,
                 result>>
  /\ UNCHANGED <<loopVars, progressVars, cfgVars, readVars>>

NextReorder == \E v \in Interior : ReorderStep(v)

SpecReorder == InitReorder /\ [][NextReorder]_vars

\* every interior voxel has been visited
ScanDone == Len(scan) = Cardinality(Interior)

\* the order of lines 83-87
CanonicalScan == \A i, j \in 1..Len(scan) : i < j => Key(scan[i]) < Key(scan[j])

\* w is a voxel whose output slot v reads: w = v + d, d in {0,1,2}^3, d # 0
WritesInto(w, v) == w # v /\ \A k \in 1..3 : w[k] - v[k] \in 0..2

\* no voxel is visited after a voxel that writes into its neighbourhood
RespectsShift ==
  \A i, j \in 1..Len(scan) : i < j => ~WritesInto(scan[i], scan[j])

\* the nestings of the three loops
Nestings == {p \in [1..3 -> 1..3] : \A a, b \in 1..3 : a # b => p[a] # p[b]}

NestKey(v, p) == (v[p[1]] * voxel_dims_[p[2]] + v[p[2]]) * voxel_dims_[p[3]] + v[p[3]]

\* the order of some nesting of the loops with every loop ascending
AscendingNest ==
  \E p \in Nestings :
    \A i, j \in 1..Len(scan) : i < j => NestKey(scan[i], p) < NestKey(scan[j], p)

\* C20 as stated: a pass that visits the interior voxels in any order but
\* that of lines 83-87 reads a slot it has already overwritten.
C20_AnyOtherOrderReadsOverwritten ==
  (pc = "smooth" /\ ScanDone /\ ~CanonicalScan) => stale # {}

\* C20 amended: the pass needs only that no voxel is visited after a voxel
\* whose output slot lies in its neighbourhood, which every nesting of the
\* loops with all loops ascending ensures; under such an order no iteration
\* reads an overwritten slot and every value read is the pre-smoothing one,
\* and an order that breaks it makes a pass over voxels that read all their
\* neighbours read an overwritten slot.
C20_OrderNeedsOnlyAscendingShift ==
  pc = "smooth" =>
    /\ AscendingNest => RespectsShift
    /\ RespectsShift =>
         /\ stale = {}
         /\ last_pos # LoopEnd => \A o \in DOMAIN reads : reads[o] = PreAt(last_pos, o)
    /\ (ScanDone /\ ~RespectsShift /\ \A j \in Slots : pre[j] = EmptyVoxel) => stale # {}

\* a finished pass in another order than that of lines 83-87, each voxel
\* having read neighbours, without a read of an overwritten slot
C20_Witness ==
  /\ pc = "smooth"
  /\ ScanDone
  /\ ~CanonicalScan
  /\ shells > 0
  /\ stale = {}

\* ------------------------------------------------------------------------
\* The shells of the smoother
\* ------------------------------------------------------------------------
\* the slots an iteration for interior voxel v addresses through a shell
ShellSlots(v, shell) == {Off(getIndex(v), shell[i]) : i \in 1..Len(shell)}

\* the shells merged by an iteration that merged n of them
ShellsRead(n) ==
  (IF n >= 1 THEN Range(FaceShell) ELSE {})
    \cup (IF n >= 2 THEN Range(EdgeShell) ELSE {})
    \cup (IF n >= 3 THEN Range(CornerShell) ELSE {})

\* C21: the face, edge and corner shells are the offsets of {-1,0,1}^3 with
\* one, two and three non-zero components, each listed once; for every
\* interior voxel they address 6, 12 and 8 slots of voxels_, pairwise
\* disjoint, which are the slots of its 26 neighbours; and an iteration reads
\* the shells it merges and nothing else but the voxel itself.
C21_ShellsPartitionNeighbours ==
  /\ Range(FaceShell) = ShellOffsets(1) /\ Len(FaceShell) = 6
  /\ Range(EdgeShell) = ShellOffsets(2) /\ Len(EdgeShell) = 12
  /\ Range(CornerShell) = ShellOffsets(3) /\ Len(CornerShell) = 8
  /\ \A v \in Interior :
       /\ Cardinality(ShellSlots(v, FaceShell)) = 6
       /\ Cardinality(ShellSlots(v, EdgeShell)) = 12
       /\ Cardinality(ShellSlots(v, CornerShell)) = 8
       /\ ShellSlots(v, FaceShell) \cap ShellSlots(v, EdgeShell) = {}
       /\ ShellSlots(v, FaceShell) \cap ShellSlots(v, CornerShell) = {}
       /\ ShellSlots(v, EdgeShell) \cap ShellSlots(v, CornerShell) = {}
       /\ ShellSlots(v, FaceShell) \cup ShellSlots(v, EdgeShell) \cup ShellSlots(v, CornerShell)
            = {getIndex(<<v[1] + o[1], v[2] + o[2], v[3] + o[3]>>) : o \in Offsets}
       /\ ShellSlots(v, FaceShell) \cup ShellSlots(v, EdgeShell) \cup ShellSlots(v, CornerShell)
            \subseteq (DOMAIN voxels_) \ {getIndex(v)}
  /\ (pc = "smooth" /\ last_pos # LoopEnd) =>
       DOMAIN reads = {Centre} \cup ShellsRead(shells)

\* an iteration has merged all three shells
C21_Witness ==
  /\ pc = "smooth"
  /\ last_pos # LoopEnd
  /\ shells = 3
  /\ Cardinality(DOMAIN reads) = 27

\* ------------------------------------------------------------------------
\* The slots the pass writes
\* ------------------------------------------------------------------------
\* the accumulator that smoothing interior voxel v of the pre-pass grid gives
SmoothedFromPre(v) == Iteration(pre, getIndex(v)).vox[OutSlot(getIndex(v))]

\* the slots with a coordinate >= dims-2 on some axis
HighSlots == {getIndex(c) : c \in {d \in Cells : \E k \in 1..3 : d[k] >= voxel_dims_[k] - 2}}

\* C22: during and after the pass the slot (x-1,y-1,z-1) of every interior
\* voxel (x,y,z) handled holds the smoothed accumulator of (x,y,z), every
\* slot with a coordinate >= dims-2 holds its pre-pass value, and so does
\* every slot that is not the shifted target of a voxel handled.
C22_ShiftedTargetsOnly ==
  pc = "smooth" =>
    /\ \A v \in Processed : Smoothed(v) = SmoothedFromPre(v)
    /\ \A j \in HighSlots : voxels_[j] = pre[j]
    /\ \A j \in Slots \ {OutSlot(getIndex(v)) : v \in Processed} : voxels_[j] = pre[j]

\* a finished pass that changed a shifted target and left a non-empty slot
\* of the high layers alone
C22_Witness ==
  /\ pc = "smooth"
  /\ PassDone
  /\ \E v \in Interior : Smoothed(v) # pre[OutSlot(getIndex(v))]
  /\ \E j \in HighSlots : pre[j] # EmptyVoxel

\* ------------------------------------------------------------------------
\* The slots the projection reads
\* ------------------------------------------------------------------------
\* lines 213-222: x < width, y < height, z < depth, whichever the view axis
ReadByProjection == {c \in Cells : \A k \in 1..3 : c[k] <= ImageSize(k) - 1}

\* C23: once the pass is over, every slot the projection reads is the
\* shifted target of an interior voxel and holds its smoothed accumulator.
C23_ProjectionReadsSmoothedOnly ==
  pc \in {"project", "write", "done"} =>
    \A c \in ReadByProjection :
      /\ <<c[1] + 1, c[2] + 1, c[3] + 1>> \in Interior
      /\ voxels_[getIndex(c)] = SmoothedFromPre(<<c[1] + 1, c[2] + 1, c[3] + 1>>)

\* ------------------------------------------------------------------------
\* The divisor of the fractional borrow
\* ------------------------------------------------------------------------
\* needed when the k-th shell of interior voxel v is examined (lines 92, 110, 132)
NeededAt(v, k) ==
  IF k = 1 THEN FSub(MinRays, numRays(PreAt(v, Centre)))
  ELSE IF k = 2 THEN FSub(FSub(MinRays, numRays(PreAt(v, Centre))), numRays(PreShell(v, 1)))
  ELSE FSub(FSub(FSub(MinRays, numRays(PreAt(v, Centre))), numRays(PreShell(v, 1))),
            numRays(PreShell(v, 2)))

\* the shell whose fraction the iteration for v borrows, 0 when it borrows none
BorrowShell(v) ==
  IF FLt(NeededAt(v, 1), Zero) THEN 0
  ELSE IF FGe(numRays(PreShell(v, 1)), NeededAt(v, 1)) THEN 1
  ELSE IF FGe(numRays(PreShell(v, 2)), NeededAt(v, 2)) THEN 2
  ELSE IF FGe(numRays(PreShell(v, 3)), NeededAt(v, 3)) THEN 3
  ELSE 0

\* C24: an iteration that borrows a fraction of a shell divides by a
\* strictly positive numRays() and scales the shell by a number in [0, 1].
C24_BorrowDivisorPositive ==
  (pc = "smooth" /\ last_pos # LoopEnd /\ BorrowShell(last_pos) > 0) =>
    LET k == BorrowShell(last_pos)
        n == numRays(PreShell(last_pos, k))
    IN /\ shells = k
       /\ FGt(n, Zero)
       /\ FLe(Zero, Share(NeededAt(last_pos, k), n))
       /\ FLe(Share(NeededAt(last_pos, k), n), I(1))

\* ------------------------------------------------------------------------
\* The contributions of one ray
\* ------------------------------------------------------------------------
\* the sum of the depths of the first n contributions of the last ray
RECURSIVE SumDepths(_)
SumDepths(n) == IF n = 0 THEN Zero ELSE FAdd(SumDepths(n - 1), trace[n].depth)

\* C25: the depths a ray contributes, hits and misses together, add up to
\* no more than the length of the clipped ray.
C25_DepthsWithinRayLength ==
  Walked => FLe(SumDepths(Len(trace)), RayValues(last_ray).length)

\* the end of the clipped ray lies within the bounds of the grid
ClippedEndInside(ray) ==
  \A k \in 1..3 :
    /\ FLe(grid_min[k], clipRay(ray.start, ray.end).end[k])
    /\ FLe(clipRay(ray.start, ray.end).end[k], grid_max[k])

\* C26: a hit ray whose clipped end lies in the grid adds exactly one hit
\* sample to the grid.
C26_HitRayAddsOneHit ==
  (Walked /\ last_ray.alpha > 0 /\ ClippedEndInside(last_ray)) =>
    Cardinality(HitAccesses) = 1

\* C27: a ray contributes at most one hit sample, and the hit is its last
\* contribution: the loop is left with it and nothing of the ray follows.
C27_HitIsLastContribution ==
  /\ [](/\ Cardinality(HitAccesses) <= 1
        /\ \A n \in HitAccesses : n = Len(trace) /\ loop_pc # "loop")
  /\ [][HitAccesses # {} => trace' = trace]_vars

\* a walk that ended with the hit after miss contributions to other voxels
C27_Witness ==
  /\ loop_pc = "exit"
  /\ Len(trace) >= 3
  /\ HitAccesses = {Len(trace)}

\* ------------------------------------------------------------------------
\* Progress::read: threads copying one tracker into another
\* ------------------------------------------------------------------------

\* calls of read and reset made in one run
MaxReads == 3

\* std::mutex::lock on a mutex the calling thread already owns is undefined
\* behaviour; the builds either block the thread forever or throw
\* std::system_error (resource_deadlock_would_occur)
RelockOutcomes == {"blocks", "throws"}

InitRead ==
  /\ RenderStart /\ LoopIdle /\ ScanIdle /\ ProgressIdle /\ CfgIdle
  /\ read_mutex = [x \in Trackers |-> NoThread]
  /\ read_pc = [t \in Threads |-> "idle"]
  /\ read_args = [t \in Threads |-> None]
  /\ read_value = [x \in Trackers |-> [phase_ |-> x, target_ |-> 2, progress_ |-> 1]]
  /\ read_calls = 0

\* thread t calls this_->read(other)
ReadCall(t, this_, other) ==
  /\ read_pc[t] = "idle"
  /\ read_calls < MaxReads
  /\ read_pc' = [read_pc EXCEPT ![t] = "lock_this"]
  /\ read_args' = [read_args EXCEPT ![t] = <<this_, other>>]
  /\ read_calls' = read_calls + 1
  /\ UNCHANGED <<read_mutex, read_value>>
  /\ UNCHANGED <<renderVars, loopVars, scanVars, progressVars, cfgVars>>

\* std::unique_lock<std::mutex> guard1(reset_mutex_);
ReadLockThis(t) ==
  /\ read_pc[t] = "lock_this"
  /\ read_mutex[read_args[t][1]] = NoThread
  /\ read_mutex' = [read_mutex EXCEPT ![read_args[t][1]] = t]
  /\ read_pc' = [read_pc EXCEPT ![t] = "lock_other"]
  /\ UNCHANGED <<read_args, read_value, read_calls>>
  /\ UNCHANGED <<renderVars, loopVars, scanVars, progressVars, cfgVars>>

\* std::unique_lock<std::mutex> guard2(other->reset_mutex_);
ReadLockOther(t) ==
  /\ read_pc[t] = "lock_other"
  /\ IF read_mutex[read_args[t][2]] = t
     THEN \E outcome \in RelockOutcomes :
            IF outcome = "blocks"
            THEN /\ read_pc' = [read_pc EXCEPT ![t] = "blocked"]
                 /\ UNCHANGED <<read_mutex, read_args>>
            ELSE \* the exception leaves read; guard1's destructor unlocks
                 /\ read_pc' = [read_pc EXCEPT ![t] = "threw"]
                 /\ read_mutex' = [read_mutex EXCEPT ![read_args[t][1]] = NoThread]
                 /\ read_args' = [read_args EXCEPT ![t] = None]
     ELSE /\ read_mutex[read_args[t][2]] = NoThread
          /\ read_mutex' = [read_mutex EXCEPT ![read_args[t][2]] = t]
          /\ read_pc' = [read_pc EXCEPT ![t] = "copy_phase"]
          /\ UNCHANGED read_args
  /\ UNCHANGED <<read_value, read_calls>>
  /\ UNCHANGED <<renderVars, loopVars, scanVars, progressVars, cfgVars>>

\* other->phase_ = phase_; guard1.unlock();
ReadCopyPhase(t) ==
  /\ read_pc[t] = "copy_phase"
  /\ read_value' = [read_value EXCEPT ![read_args[t][2]].phase_ =
                                        read_value[read_args[t][1]].phase_]
  /\ read_mutex' = [read_mutex EXCEPT ![read_args[t][1]] = NoThread]
  /\ read_pc' = [read_pc EXCEPT ![t] = "copy_values"]
  /\ UNCHANGED <<read_args, read_calls>>
  /\ UNCHANGED <<renderVars, loopVars, scanVars, progressVars, cfgVars>>

\* other->progress_ = progress_.load(); other->target_ = target_.load();
\* and the return, where guard2's destructor unlocks
ReadCopyValues(t) ==
  /\ read_pc[t] = "copy_values"
  /\ read_value' = [read_value EXCEPT
                      ![read_args[t][2]].progress_ = read_value[read_args[t][1]].progress_,
                      ![read_args[t][2]].target_ = read_value[read_args[t][1]].target_]
  /\ read_mutex' = [read_mutex EXCEPT ![read_args[t][2]] = NoThread]
  /\ read_pc' = [read_pc EXCEPT ![t] = "idle"]
  /\ read_args' = [read_args EXCEPT ![t] = None]
  /\ UNCHANGED read_calls
  /\ UNCHANGED <<renderVars, loopVars, scanVars, progressVars, cfgVars>>

\* thread t calls this_->reset(target)
ReadResetCall(t, this_) ==
  /\ read_pc[t] = "idle"
  /\ read_calls < MaxReads
  /\ read_pc' = [read_pc EXCEPT ![t] = "reset_lock"]
  /\ read_args' = [read_args EXCEPT ![t] = <<this_>>]
  /\ read_calls' = read_calls + 1
  /\ UNCHANGED <<read_mutex, read_value>>
  /\ UNCHANGED <<renderVars, loopVars, scanVars, progressVars, cfgVars>>

\* std::unique_lock<std::mutex> guard(reset_mutex_);
ReadResetLock(t) ==
  /\ read_pc[t] = "reset_lock"
  /\ read_mutex[read_args[t][1]] = NoThread
  /\ read_mutex' = [read_mutex EXCEPT ![read_args[t][1]] = t]
  /\ read_pc' = [read_pc EXCEPT ![t] = "reset_store"]
  /\ UNCHANGED <<read_args, read_value, read_calls>>
  /\ UNCHANGED <<renderVars, loopVars, scanVars, progressVars, cfgVars>>

\* phase_ = phase; target_ = target; progress_ = 0u; and the return
ReadResetStore(t) ==
  /\ read_pc[t] = "reset_store"
  /\ read_value' = [read_value EXCEPT ![read_args[t][1]] =
                                        [phase_ |-> "", target_ |-> 0, progress_ |-> 0]]
  /\ read_mutex' = [read_mutex EXCEPT ![read_args[t][1]] = NoThread]
  /\ read_pc' = [read_pc EXCEPT ![t] = "idle"]
  /\ read_args' = [read_args EXCEPT ![t] = None]
  /\ UNCHANGED read_calls
  /\ UNCHANGED <<renderVars, loopVars, scanVars, progressVars, cfgVars>>

\* the steps a thread takes once it is inside a call
ReadStep(t) ==
  \/ ReadLockThis(t)
  \/ ReadLockOther(t)
  \/ ReadCopyPhase(t)
  \/ ReadCopyValues(t)
  \/ ReadResetLock(t)
  \/ ReadResetStore(t)

NextRead ==
  \E t \in Threads :
    \/ \E this_ \in Trackers, other \in Trackers : ReadCall(t, this_, other)
    \/ \E this_ \in Trackers : ReadResetCall(t, this_)
    \/ ReadStep(t)

\* the scheduler runs every thread that is not blocked on a mutex
SpecRead ==
  InitRead /\ [][NextRead]_vars /\ \A t \in Threads : WF_readVars(ReadStep(t))

\* the positions of a thread inside a call of read
InRead == {"lock_this", "lock_other", "blocked", "copy_phase", "copy_values"}

\* C28: Progress::read never deadlocks: every call of read comes to an end,
\* by returning or by an exception leaving it, and a thread that is outside
\* a call holds no reset mutex; this also when two threads call a.read(&b)
\* and b.read(&a) concurrently and when a tracker is read into itself
C28_ReadNeverDeadlocks ==
  /\ \A t \in Threads : (read_pc[t] \in InRead) ~> (read_pc[t] \in {"idle", "threw"})
  /\ [](\A t \in Threads : \A x \in Trackers :
          read_mutex[x] = t => read_pc[t] \notin {"idle", "threw"})

====
